---------------------------- MODULE Spec2Model ----------------------------
(***************************************************************************)
(* Timer Helpers library (src/VGA_output/TimerHelpers.h).                  *)
(*                                                                         *)
(* Three namespaces, Timer0, Timer1 and Timer2, each hold a table Modes of *)
(* waveform-generation bit fragments, an enumeration of clock selectors,   *)
(* an enumeration of output-compare port actions, and one function         *)
(* setMode (mode, clock, port) that writes the timer's two control         *)
(* registers TCCRnA and TCCRnB.                                            *)
(*                                                                         *)
(* The state is the six 8-bit control registers and the position of the    *)
(* caller inside setMode.  A call is modelled statement by statement:      *)
(* the sanity check, the two resets, and the two OR-assignments, each of   *)
(* which is a load of the volatile register followed by a store.           *)
(***************************************************************************)
EXTENDS Integers, Sequences, FiniteSets

VARIABLES
    regs,      \* the six control registers, register name -> 0..255
    pc,        \* the statement of setMode the caller executes next
    cur,       \* the parameters of the call in progress (or last returned)
    tmp,       \* the register value loaded by the OR-assignment in progress
    budget,    \* how many more calls the caller makes
    initial,   \* history: the registers before the first call
    pre,       \* history: the registers when the call was entered
    cfg,       \* history: per timer, the arguments of its last completed valid call
    preCfg,    \* history: cfg when the call was entered
    seen,      \* history: what the interrupt handler read during the call
    isrLast,   \* history: per register, the handler's last write during the call
    nisr       \* how many times the interrupt handler has run

vars == <<regs, pc, cur, tmp, budget, initial, pre, cfg, preCfg, seen, isrLast, nisr>>

-----------------------------------------------------------------------------
(* 8-bit arithmetic *)

Byte == 0 .. 255

\* bit i of x
Bit(x, i) == (x \div (2 ^ i)) % 2

\* the C operator | on two bytes
BitOr(x, y) ==
    LET b(i) == IF Bit(x, i) = 1 \/ Bit(y, i) = 1 THEN 2 ^ i ELSE 0
    IN  b(0) + b(1) + b(2) + b(3) + b(4) + b(5) + b(6) + b(7)

\* the C operator & on two bytes
BitAnd(x, y) ==
    LET b(i) == IF Bit(x, i) = 1 /\ Bit(y, i) = 1 THEN 2 ^ i ELSE 0
    IN  b(0) + b(1) + b(2) + b(3) + b(4) + b(5) + b(6) + b(7)

\* the macro _BV (bit): 1 << bit
_BV(bit) == 2 ^ bit

\* an int argument received by a parameter of type const byte
ToByte(i) == i % 256

-----------------------------------------------------------------------------
(* Bit positions of the ATmega control registers, as the names the source  *)
(* uses them under.                                                        *)

WGM00 == 0
WGM01 == 1
WGM02 == 3
COM0B0 == 4
COM0B1 == 5
COM0A0 == 6
COM0A1 == 7

WGM10 == 0
WGM11 == 1
WGM12 == 3
WGM13 == 4
COM1B0 == 4
COM1B1 == 5
COM1A0 == 6
COM1A1 == 7

WGM20 == 0
WGM21 == 1
WGM22 == 3
COM2B0 == 4
COM2B1 == 5
COM2A0 == 6
COM2A1 == 7

-----------------------------------------------------------------------------
(* The three namespaces *)

Timers == {0, 1, 2}

Regs == {"TCCR0A", "TCCR0B", "TCCR1A", "TCCR1B", "TCCR2A", "TCCR2B"}

\* Timer0::Modes, rows 0..7 (a TLA+ sequence: row m is element m + 1)
Timer0_Modes ==
    << << 0,                                0 >>,
       << _BV(WGM00),                       0 >>,
       << _BV(WGM01),                       0 >>,
       << BitOr(_BV(WGM00), _BV(WGM01)),    0 >>,
       << 0,                                _BV(WGM02) >>,
       << _BV(WGM00),                       _BV(WGM02) >>,
       << _BV(WGM01),                       _BV(WGM02) >>,
       << BitOr(_BV(WGM00), _BV(WGM01)),    _BV(WGM02) >> >>

\* Timer1::Modes with row 14 written as row 6 (_BV (WGM13) left out)
Timer1_Modes_Typo ==
    << << 0,                                0 >>,
       << _BV(WGM10),                       0 >>,
       << _BV(WGM11),                       0 >>,
       << BitOr(_BV(WGM10), _BV(WGM11)),    0 >>,
       << 0,                                _BV(WGM12) >>,
       << _BV(WGM10),                       _BV(WGM12) >>,
       << _BV(WGM11),                       _BV(WGM12) >>,
       << BitOr(_BV(WGM10), _BV(WGM11)),    _BV(WGM12) >>,
       << 0,                                _BV(WGM13) >>,
       << _BV(WGM10),                       _BV(WGM13) >>,
       << _BV(WGM11),                       _BV(WGM13) >>,
       << BitOr(_BV(WGM10), _BV(WGM11)),    _BV(WGM13) >>,
       << 0,                                BitOr(_BV(WGM12), _BV(WGM13)) >>,
       << _BV(WGM10),                       BitOr(_BV(WGM12), _BV(WGM13)) >>,
       << _BV(WGM11),                       _BV(WGM12) >>,
       << BitOr(_BV(WGM10), _BV(WGM11)),    BitOr(_BV(WGM12), _BV(WGM13)) >> >>

\* Timer1::Modes, rows 0..15
Timer1_Modes ==
    << << 0,                                0 >>,
       << _BV(WGM10),                       0 >>,
       << _BV(WGM11),                       0 >>,
       << BitOr(_BV(WGM10), _BV(WGM11)),    0 >>,
       << 0,                                _BV(WGM12) >>,
       << _BV(WGM10),                       _BV(WGM12) >>,
       << _BV(WGM11),                       _BV(WGM12) >>,
       << BitOr(_BV(WGM10), _BV(WGM11)),    _BV(WGM12) >>,
       << 0,                                _BV(WGM13) >>,
       << _BV(WGM10),                       _BV(WGM13) >>,
       << _BV(WGM11),                       _BV(WGM13) >>,
       << BitOr(_BV(WGM10), _BV(WGM11)),    _BV(WGM13) >>,
       << 0,                                BitOr(_BV(WGM12), _BV(WGM13)) >>,
       << _BV(WGM10),                       BitOr(_BV(WGM12), _BV(WGM13)) >>,
       << _BV(WGM11),                       BitOr(_BV(WGM12), _BV(WGM13)) >>,
       << BitOr(_BV(WGM10), _BV(WGM11)),    BitOr(_BV(WGM12), _BV(WGM13)) >> >>

\* Timer2::Modes with the register-B fragment one bit too low (bit 2, a clock bit)
Timer2_Modes_Bit2 ==
    << << 0,                                0 >>,
       << _BV(WGM20),                       0 >>,
       << _BV(WGM21),                       0 >>,
       << BitOr(_BV(WGM20), _BV(WGM21)),    0 >>,
       << 0,                                _BV(WGM22 - 1) >>,
       << _BV(WGM20),                       _BV(WGM22 - 1) >>,
       << _BV(WGM21),                       _BV(WGM22 - 1) >>,
       << BitOr(_BV(WGM20), _BV(WGM21)),    _BV(WGM22 - 1) >> >>

\* Timer2::Modes, rows 0..7
Timer2_Modes ==
    << << 0,                                0 >>,
       << _BV(WGM20),                       0 >>,
       << _BV(WGM21),                       0 >>,
       << BitOr(_BV(WGM20), _BV(WGM21)),    0 >>,
       << 0,                                _BV(WGM22) >>,
       << _BV(WGM20),                       _BV(WGM22) >>,
       << _BV(WGM21),                       _BV(WGM22) >>,
       << BitOr(_BV(WGM20), _BV(WGM21)),    _BV(WGM22) >> >>

\* the table of namespace Timer<t>
Modes(t) ==
    CASE t = 0 -> Timer0_Modes
      [] t = 1 -> Timer1_Modes
      [] t = 2 -> Timer2_Modes

\* Modes [mode] [k] in namespace Timer<t>, k = 0 or 1
Frag(t, mode, k) == Modes(t)[mode + 1][k + 1]

\* the clock enumerations: NO_CLOCK = 0 and seven more enumerators, 1..7
Timer0_Clocks == 0 .. 7
Timer1_Clocks == 0 .. 7
Timer2_Clocks == 0 .. 7

Clocks(t) ==
    CASE t = 0 -> Timer0_Clocks
      [] t = 1 -> Timer1_Clocks
      [] t = 2 -> Timer2_Clocks

\* the port enumerations: NO_PORT, TOGGLE_, CLEAR_ and SET_ for channel A ...
Timer0_PortsA ==
    {0, _BV(COM0A0), _BV(COM0A1), BitOr(_BV(COM0A0), _BV(COM0A1))}
Timer1_PortsA ==
    {0, _BV(COM1A0), _BV(COM1A1), BitOr(_BV(COM1A0), _BV(COM1A1))}
Timer2_PortsA ==
    {0, _BV(COM2A0), _BV(COM2A1), BitOr(_BV(COM2A0), _BV(COM2A1))}

\* ... and for channel B
Timer0_PortsB ==
    {0, _BV(COM0B0), _BV(COM0B1), BitOr(_BV(COM0B0), _BV(COM0B1))}
Timer1_PortsB ==
    {0, _BV(COM1B0), _BV(COM1B1), BitOr(_BV(COM1B0), _BV(COM1B1))}
Timer2_PortsB ==
    {0, _BV(COM2B0), _BV(COM2B1), BitOr(_BV(COM2B0), _BV(COM2B1))}

PortsA(t) ==
    CASE t = 0 -> Timer0_PortsA
      [] t = 1 -> Timer1_PortsA
      [] t = 2 -> Timer2_PortsA

PortsB(t) ==
    CASE t = 0 -> Timer0_PortsB
      [] t = 1 -> Timer1_PortsB
      [] t = 2 -> Timer2_PortsB

\* a port argument built from the named constants: one of channel A OR one of channel B
NamedPorts(t) == {BitOr(a, b) : a \in PortsA(t), b \in PortsB(t)}

\* the registers setMode of namespace Timer<t> writes
RegA(t) ==
    CASE t = 0 -> "TCCR0A"
      [] t = 1 -> "TCCR1A"
      [] t = 2 -> "TCCR2A"

\* RegB with Timer2's register left as pasted from Timer0
RegB_Pasted(t) ==
    CASE t = 0 -> "TCCR0B"
      [] t = 1 -> "TCCR1B"
      [] t = 2 -> "TCCR0B"

RegB(t) ==
    CASE t = 0 -> "TCCR0B"
      [] t = 1 -> "TCCR1B"
      [] t = 2 -> "TCCR2B"

\* the number of rows the tables are declared with: Modes [8] [2], Modes [16] [2]
TableSize(t) == IF t = 1 THEN 16 ELSE 8

\* the largest mode the sanity check lets through: 7, 15, 7
MaxMode(t) == IF t = 1 THEN 15 ELSE 7

\* the sanity check of the 8-bit timers pasted into Timer1
ModeOk_Narrow(t, mode) == ~(mode < 0 \/ mode > 7)

\* the negation of the sanity check "if (mode < 0 || mode > 7) return;"
ModeOk(t, mode) == ~(mode < 0 \/ mode > MaxMode(t))


-----------------------------------------------------------------------------
(* The statements of setMode *)

\* the parameters of a call: the caller's int mode is received as a byte
Enter(t, imode, clock, port) ==
    [timer |-> t, arg |-> imode, mode |-> ToByte(imode),
     clock |-> clock, port |-> port]

\* setMode without the reset of TCCRnA
ResetA_Skip(r, t) == r

\* "TCCRnA = 0;"
ResetA(r, t) == [r EXCEPT ![RegA(t)] = 0]

\* setMode without the reset of TCCRnB
ResetB_Skip(r, t) == r

\* "TCCRnB = 0;"
ResetB(r, t) == [r EXCEPT ![RegB(t)] = 0]

\* "(Modes [mode] [0]) | port"
ValueA(t, mode, port) == BitOr(Frag(t, mode, 0), port)

\* "(Modes [mode] [1]) | clock"
ValueB(t, mode, clock) == BitOr(Frag(t, mode, 1), clock)

\* "reg = v" in place of "reg |= v"
OrAssign_Plain(loaded, v) == v

\* "reg |= v": the value stored, from the value loaded
OrAssign(loaded, v) == BitOr(loaded, v)

NoCfg == [set |-> FALSE, mode |-> 0, clock |-> 0, port |-> 0]
NoSeen == [at |-> "none", a |-> 0, b |-> 0, clean |-> TRUE]
NoWrite == [at |-> "none", v |-> 0]

\* the caller invokes Timer<t>::setMode (imode, clock, port)
Call(t, imode, clock, port) ==
    /\ pc \in {"idle", "done"}
    /\ budget > 0
    /\ budget' = budget - 1
    /\ cur' = Enter(t, imode, clock, port)
    /\ pc' = "check"
    /\ pre' = regs
    /\ preCfg' = cfg
    /\ seen' = NoSeen
    /\ isrLast' = [r \in Regs |-> NoWrite]
    /\ UNCHANGED <<initial, regs, tmp, cfg, nisr>>

\* the sanity check placed after the two resets
Check_AfterReset ==
    /\ pc = "check"
    /\ regs' = ResetB(ResetA(regs, cur.timer), cur.timer)
    /\ pc' = IF ModeOk(cur.timer, cur.mode) THEN "clearA" ELSE "done"
    /\ UNCHANGED <<initial, cur, tmp, budget, pre, cfg, preCfg, seen, isrLast, nisr>>

\* "if (mode < 0 || mode > 7) return;"
Check ==
    /\ pc = "check"
    /\ pc' = IF ModeOk(cur.timer, cur.mode) THEN "clearA" ELSE "done"
    /\ UNCHANGED <<initial, regs, cur, tmp, budget, pre, cfg, preCfg, seen, isrLast, nisr>>

\* "TCCRnA = 0;"
ClearA ==
    /\ pc = "clearA"
    /\ regs' = ResetA(regs, cur.timer)
    /\ pc' = "clearB"
    /\ UNCHANGED <<initial, cur, tmp, budget, pre, cfg, preCfg, seen, isrLast, nisr>>

\* "TCCRnB = 0;"
ClearB ==
    /\ pc = "clearB"
    /\ regs' = ResetB(regs, cur.timer)
    /\ pc' = "loadA"
    /\ UNCHANGED <<initial, cur, tmp, budget, pre, cfg, preCfg, seen, isrLast, nisr>>

\* "TCCRnA |= ...": the load of the volatile register
LoadA ==
    /\ pc = "loadA"
    /\ tmp' = regs[RegA(cur.timer)]
    /\ pc' = "storeA"
    /\ UNCHANGED <<initial, regs, cur, budget, pre, cfg, preCfg, seen, isrLast, nisr>>

\* "TCCRnA |= (Modes [mode] [0]) | port;": the store
StoreA ==
    /\ pc = "storeA"
    /\ regs' = [regs EXCEPT ![RegA(cur.timer)] =
                    OrAssign(tmp, ValueA(cur.timer, cur.mode, cur.port))]
    /\ tmp' = 0
    /\ pc' = "loadB"
    /\ UNCHANGED <<initial, cur, budget, pre, cfg, preCfg, seen, isrLast, nisr>>

\* "TCCRnB |= ...": the load of the volatile register
LoadB ==
    /\ pc = "loadB"
    /\ tmp' = regs[RegB(cur.timer)]
    /\ pc' = "storeB"
    /\ UNCHANGED <<initial, regs, cur, budget, pre, cfg, preCfg, seen, isrLast, nisr>>

\* "TCCRnB |= (Modes [mode] [1]) | clock;": the store, and the return
StoreB ==
    /\ pc = "storeB"
    /\ regs' = [regs EXCEPT ![RegB(cur.timer)] =
                    OrAssign(tmp, ValueB(cur.timer, cur.mode, cur.clock))]
    /\ tmp' = 0
    /\ pc' = "done"
    /\ cfg' = [cfg EXCEPT ![cur.timer] =
                    [set |-> TRUE, mode |-> cur.mode,
                     clock |-> cur.clock, port |-> cur.port]]
    /\ UNCHANGED <<initial, cur, budget, pre, preCfg, seen, isrLast, nisr>>

\* the statements of a call in progress
Step == Check \/ ClearA \/ ClearB \/ LoadA \/ StoreA \/ LoadB \/ StoreB

-----------------------------------------------------------------------------
(* An interrupt handler that runs between two statements of a call.  The   *)
(* library takes no lock and masks no interrupt, so a handler may read or  *)
(* write the control registers of the timer being configured at any point  *)
(* of the call.                                                            *)

MaxIsr == 2

\* the handler reads both control registers of the timer being configured
IsrRead ==
    /\ pc \notin {"idle"}
    /\ nisr < MaxIsr
    /\ nisr' = nisr + 1
    /\ seen' = [at |-> pc,
                a |-> regs[RegA(cur.timer)],
                b |-> regs[RegB(cur.timer)],
                clean |-> \A r \in Regs : isrLast[r].at = "none"]
    /\ UNCHANGED <<initial, regs, pc, cur, tmp, budget, pre, cfg, preCfg, isrLast>>

\* the handler writes v to control register r of the timer being configured
IsrWrite(r, v) ==
    /\ pc \notin {"idle"}
    /\ nisr < MaxIsr
    /\ r \in {RegA(cur.timer), RegB(cur.timer)}
    /\ nisr' = nisr + 1
    /\ regs' = [regs EXCEPT ![r] = v]
    /\ isrLast' = [isrLast EXCEPT ![r] = [at |-> pc, v |-> v]]
    /\ UNCHANGED <<initial, pc, cur, tmp, budget, pre, cfg, preCfg, seen>>

-----------------------------------------------------------------------------
(* Inputs *)

\* register contents before the first call: the reset state, and two images
\* that give every register a different value
PriorImages ==
    { [r \in Regs |-> 0],
      [TCCR0A |-> 3,   TCCR0B |-> 11,  TCCR1A |-> 161,
       TCCR1B |-> 26,  TCCR2A |-> 49,  TCCR2B |-> 14],
      [TCCR0A |-> 255, TCCR0B |-> 165, TCCR1A |-> 90,
       TCCR1B |-> 255, TCCR2A |-> 60,  TCCR2B |-> 195] }

\* int arguments for mode: every row of the largest table, the first values
\* past each table, and values outside 0..255
IntModes == {-256, -1} \cup (0 .. 16) \cup {255, 256, 258}

\* (clock, port) arguments that are not named enumerators
UnnamedArgs ==
    { <<c, p>> : c \in {8, 16, 24, 32, 64, 128, 165, 255},
                 p \in {1, 2, 4, 8, 15, 90, 255} }

\* (clock, port) arguments of Timer<t>: the named ones and the unnamed ones
Args(t) == (Clocks(t) \X NamedPorts(t)) \cup UnnamedArgs

\* arguments of the calls of a sequence
SeqModes == {2, 5, 8, 12, 16, 258}
SeqArgs == { <<3, 128>>, <<4, 80>>, <<255, 255>> }

\* arguments of a call an interrupt handler interferes with
IsrModes == {0, 3, 7, 13}
IsrArgs == { <<0, 0>>, <<3, 128>>, <<8, 1>> }
IsrValues == {36, 255}

MaxCalls == 3

-----------------------------------------------------------------------------
(* Specifications *)

Idle(image, n) ==
    /\ regs = image
    /\ pc = "idle"
    /\ cur = Enter(0, 0, 0, 0)
    /\ tmp = 0
    /\ budget = n
    /\ initial = image
    /\ pre = image
    /\ cfg = [t \in Timers |-> NoCfg]
    /\ preCfg = [t \in Timers |-> NoCfg]
    /\ seen = NoSeen
    /\ isrLast = [r \in Regs |-> NoWrite]
    /\ nisr = 0

\* the state in which a call has just been entered
Entered(image, call) ==
    /\ regs = image
    /\ pc = "check"
    /\ cur = call
    /\ tmp = 0
    /\ budget = 0
    /\ initial = image
    /\ pre = image
    /\ cfg = [t \in Timers |-> NoCfg]
    /\ preCfg = [t \in Timers |-> NoCfg]
    /\ seen = NoSeen
    /\ isrLast = [r \in Regs |-> NoWrite]
    /\ nisr = 0

\* a caller that makes up to MaxCalls calls, one after the other
Init == \E image \in PriorImages : Idle(image, MaxCalls)

Next ==
    \/ \E t \in Timers, imode \in SeqModes, a \in SeqArgs :
            Call(t, imode, a[1], a[2])
    \/ Step

Spec == Init /\ [][Next]_vars

\* one call, on every argument and register image
InitCall ==
    \E image \in PriorImages, t \in Timers, imode \in IntModes :
        \E a \in Args(t) : Entered(image, Enter(t, imode, a[1], a[2]))

SpecCall == InitCall /\ [][Step]_vars

\* one call, with an interrupt handler
InitIsr ==
    \E image \in PriorImages, t \in Timers, imode \in IsrModes, a \in IsrArgs :
        Entered(image, Enter(t, imode, a[1], a[2]))

NextIsr ==
    \/ Step
    \/ IsrRead
    \/ \E r \in Regs, v \in IsrValues : IsrWrite(r, v)

SpecIsr == InitIsr /\ [][NextIsr]_vars


-----------------------------------------------------------------------------
(* Properties *)

\* the timer of the call in progress
T == cur.timer

\* the control registers of Timer<t>, by name
NameA(t) == << "TCCR0A", "TCCR1A", "TCCR2A" >>[t + 1]
NameB(t) == << "TCCR0B", "TCCR1B", "TCCR2B" >>[t + 1]

\* the byte mode of the call is a row of its timer's table
InRange == cur.mode \in 0 .. (TableSize(T) - 1)

\* the table row of the call
Row == Modes(T)[cur.mode + 1]

\* the register pair a call is to leave behind
WantA == BitOr(Row[1], cur.port)
WantB == BitOr(Row[2], cur.clock)

\* the register pair of the call's timer, now and at entry
NowA == regs[NameA(T)]
NowB == regs[NameB(T)]
PreA == pre[NameA(T)]
PreB == pre[NameB(T)]

\* C1: when a setMode call with a mode in 0..N-1 has run to completion
\* without interference, every bit of control register A is set exactly when
\* it is set in Modes[mode][0] or in port, and every bit of control register
\* B exactly when it is set in Modes[mode][1] or in clock, whatever the
\* registers held before and whether or not clock and port are named values.
C1_SetModeWritesExactly ==
    (pc = "done" /\ InRange) =>
        \A i \in 0 .. 7 :
            /\ (Bit(NowA, i) = 1) <=> (Bit(Row[1], i) = 1 \/ Bit(cur.port, i) = 1)
            /\ (Bit(NowB, i) = 1) <=> (Bit(Row[2], i) = 1 \/ Bit(cur.clock, i) = 1)

\* a completed Timer1 call, mode 13, with unnamed clock and port, over
\* registers that held other bits
C1_Witness ==
    /\ pc = "done"
    /\ T = 1 /\ cur.mode = 13 /\ cur.clock = 24 /\ cur.port = 15
    /\ PreA = 90 /\ PreB = 255
    /\ NowA = 15 /\ NowB = 24

\* C2: a setMode call whose byte mode is outside 0..N-1 writes no register:
\* at every point of the call and after it all registers hold their values
\* from before the call.
C2_OutOfRangeWritesNothing ==
    (pc # "idle" /\ ~InRange) => regs = pre

\* Timer0::setMode (8, ...) has returned over non-zero registers
C2_Witness ==
    /\ pc = "done"
    /\ T = 0 /\ cur.arg = 8 /\ cur.mode = 8
    /\ PreA = 255 /\ NowA = 255 /\ NowB = 165

\* C3: between calls, the registers of every timer are those written by the
\* timer's most recent call with a valid mode (A = Modes[mode][0] | port,
\* B = Modes[mode][1] | clock), or their initial values if there was none; a
\* call with a valid mode becomes the most recent one, a call with an
\* out-of-range mode changes nothing; and a call equal to the most recent
\* valid one leaves the registers as they were.
C3_LastValidCallDecides ==
    (pc \in {"idle", "done"}) =>
        /\ \A t \in Timers :
              IF cfg[t].set
              THEN /\ regs[NameA(t)] =
                          BitOr(Modes(t)[cfg[t].mode + 1][1], cfg[t].port)
                   /\ regs[NameB(t)] =
                          BitOr(Modes(t)[cfg[t].mode + 1][2], cfg[t].clock)
              ELSE /\ regs[NameA(t)] = initial[NameA(t)]
                   /\ regs[NameB(t)] = initial[NameB(t)]
        /\ (pc = "done" /\ InRange) =>
              /\ cfg[T] = [set |-> TRUE, mode |-> cur.mode,
                           clock |-> cur.clock, port |-> cur.port]
              /\ \A t \in Timers \ {T} : cfg[t] = preCfg[t]
        /\ (pc = "done" /\ ~InRange) => cfg = preCfg
        /\ (pc = "done" /\ InRange /\ preCfg[T] = cfg[T]) => regs = pre

\* the third call of a sequence replaces a configuration with all bits set
\* by one with fewer bits
C3_Witness ==
    /\ pc = "done" /\ budget = 0
    /\ InRange
    /\ preCfg[T].set /\ preCfg[T].port = 255 /\ preCfg[T].clock = 255
    /\ cur.port = 80 /\ cur.clock = 4
    /\ NowA < 255 /\ NowB < 255

\* C4: during and after every setMode call, with a valid or an out-of-range
\* mode, the four control registers of the other two timers hold the values
\* they held when the call was entered.
C4_OtherTimersUntouched ==
    (pc # "idle") =>
        \A t \in Timers \ {T} :
            /\ regs[NameA(t)] = pre[NameA(t)]
            /\ regs[NameB(t)] = pre[NameB(t)]

\* a Timer2 call has changed Timer2's registers after Timer0 and Timer1
\* were configured
C4_Witness ==
    /\ pc = "done"
    /\ T = 2 /\ InRange
    /\ cfg[0].set /\ cfg[1].set
    /\ <<NowA, NowB>> # <<PreA, PreB>>

\* C5: in every state of an uninterrupted call with a valid mode, each of
\* the two registers holds its value from before the call, zero, or its new
\* value, never a combination of the old and the new bits; and between the
\* first and the last write of the call no register holds its new non-zero
\* value while the other holds its non-zero value from before the call.
C5_NoMixedTransient ==
    (pc # "idle" /\ InRange) =>
        /\ NowA \in {PreA, 0, WantA}
        /\ NowB \in {PreB, 0, WantB}
        /\ (pc \in {"clearB", "loadA", "storeA", "loadB", "storeB"}) =>
              /\ ~(NowA = WantA /\ WantA # 0 /\ NowB = PreB /\ PreB # 0)
              /\ ~(NowB = WantB /\ WantB # 0 /\ NowA = PreA /\ PreA # 0)

\* register A holds its new non-zero value, register B is cleared, and both
\* held other non-zero values before
C5_Witness ==
    /\ pc = "loadB" /\ InRange
    /\ PreA # 0 /\ PreB # 0
    /\ WantA # 0 /\ WantB # 0
    /\ PreA # WantA /\ PreB # WantB
    /\ BitOr(PreA, WantA) # WantA /\ BitOr(PreB, WantB) # WantB
    /\ NowA = WantA /\ NowB = 0

\* the register pair a handler reads at a point of an otherwise undisturbed call
SeenWant ==
    CASE seen.at \in {"check", "clearA"}  -> << PreA, PreB >>
      [] seen.at = "clearB"               -> << 0, PreB >>
      [] seen.at \in {"loadA", "storeA"}  -> << 0, 0 >>
      [] seen.at \in {"loadB", "storeB"}  -> << WantA, 0 >>
      [] seen.at = "done"                 -> << WantA, WantB >>

\* the pair the handler read is neither the old nor the new configuration
Torn ==
    /\ << seen.a, seen.b >> # << PreA, PreB >>
    /\ << seen.a, seen.b >> # << WantA, WantB >>

\* C6: an interrupt handler that reads the two control registers during a
\* call with a valid mode sees the writes of the call one by one: the pair
\* it reads is the one the writes made so far have left, and when it runs
\* after both resets and before the first OR-assignment, with the old and
\* the new configuration both non-zero, the pair is neither of them.
C6_HandlerReadsPartialWrites ==
    (seen.at # "none" /\ seen.clean /\ InRange) =>
        /\ << seen.a, seen.b >> = SeenWant
        /\ (seen.at \in {"loadA", "storeA"}
              /\ << PreA, PreB >> # << 0, 0 >>
              /\ << WantA, WantB >> # << 0, 0 >>) => Torn

\* the handler has read the new register A next to a cleared register B
C6_Witness ==
    /\ seen.at = "loadB" /\ seen.clean /\ InRange
    /\ WantA # 0 /\ WantB # 0 /\ PreB # 0
    /\ seen.a = WantA /\ seen.b = 0
    /\ Torn

\* C7: a call whose int mode argument is negative or at least N leaves all
\* registers unchanged.
C7_EveryIntOutOfRangeIsNoOp ==
    (pc # "idle" /\ (cur.arg < 0 \/ cur.arg >= TableSize(T))) => regs = pre

\* the bit positions the rows of Timer<t>'s table are built from
Wgm(t, k) ==
    CASE t = 0 -> << WGM00, WGM01, WGM02, WGM02 >>[k + 1]
      [] t = 1 -> << WGM10, WGM11, WGM12, WGM13 >>[k + 1]
      [] t = 2 -> << WGM20, WGM21, WGM22, WGM22 >>[k + 1]

\* C8: the row of every valid mode m is the bit decomposition of m: fragment
\* A has bit WGMn0 set exactly when bit 0 of m is set, bit WGMn1 exactly when
\* bit 1 of m is set, and no other bit; fragment B has bit WGMn2 set exactly
\* when bit 2 of m is set, for Timer1 bit WGM13 exactly when bit 3 of m is
\* set, and no other bit; that is, fragment A = m mod 4 and fragment
\* B = 8 * (m div 4).  The table has a row for every mode and no two rows
\* are equal.
C8_TableIsBitDecomposition ==
    (pc # "idle" /\ InRange) =>
        LET m == cur.mode
        IN  /\ \A i \in 0 .. 7 :
                  (Bit(Row[1], i) = 1) <=>
                      \/ (i = Wgm(T, 0) /\ Bit(m, 0) = 1)
                      \/ (i = Wgm(T, 1) /\ Bit(m, 1) = 1)
            /\ \A i \in 0 .. 7 :
                  (Bit(Row[2], i) = 1) <=>
                      \/ (i = Wgm(T, 2) /\ Bit(m, 2) = 1)
                      \/ (T = 1 /\ i = Wgm(T, 3) /\ Bit(m, 3) = 1)
            /\ Row[1] = m % 4
            /\ Row[2] = 8 * (m \div 4)
            /\ Len(Modes(T)) = TableSize(T)
            /\ \A m2 \in 0 .. (TableSize(T) - 1) :
                  m2 # m => Modes(T)[m2 + 1] # Row

\* a Timer1 call looks up row 14
C8_Witness ==
    /\ pc = "clearA"
    /\ T = 1 /\ cur.mode = 14
    /\ Row = << 2, 24 >>

\* the clock and the port of the call are built from the named enumerators
Named == cur.clock \in Clocks(T) /\ cur.port \in NamedPorts(T)

\* C9: after a call with a valid mode, a named clock and a port built from
\* one channel-A and one channel-B enumerator, the clock lies in bits 0..2,
\* the port in bits 4..7, the fragments share no bit with them, and mode,
\* clock and port are read back from the register pair, so that different
\* arguments leave different register pairs.  With the unnamed clock 8,
\* mode 0 leaves the pair that mode 4 leaves with clock 0.
C9_NamedArgsRecoverable ==
    /\ (pc = "done" /\ InRange /\ Named) =>
          /\ cur.clock \in 0 .. 7
          /\ cur.port % 16 = 0
          /\ BitAnd(Row[1], cur.port) = 0
          /\ BitAnd(Row[2], cur.clock) = 0
          /\ cur.mode = (NowA % 4) + 4 * ((NowB \div 8) % 4)
          /\ cur.clock = NowB % 8
          /\ cur.port = 16 * (NowA \div 16)
    /\ (pc = "done" /\ InRange /\ cur.mode = 0 /\ cur.clock = 8) =>
          /\ NowA = BitOr(Modes(T)[5][1], cur.port)
          /\ NowB = BitOr(Modes(T)[5][2], 0)

\* Timer1::setMode (15, 7, SET_A_ON_COMPARE | TOGGLE_B_ON_COMPARE) has returned
C9_Witness ==
    /\ pc = "done"
    /\ T = 1 /\ cur.mode = 15 /\ cur.clock = 7 /\ cur.port = 208
    /\ Named
    /\ NowA = 211 /\ NowB = 31

\* the handler's last write to each register of the call's timer
WroteA == isrLast[NameA(T)]
WroteB == isrLast[NameB(T)]

\* C10: when a call with a valid mode has returned, a value v that an
\* interrupt handler last wrote to a control register after the call's reset
\* of that register and before the call's OR-assignment to it is still in
\* the register, which holds v | fragment | port (register A) or
\* v | fragment | clock (register B); a value the handler last wrote before
\* the reset is gone, and the register holds exactly the call's value.
C10_HandlerWriteSurvivesOr ==
    (pc = "done" /\ InRange) =>
        /\ (WroteA.at \in {"clearB", "loadA"}) => NowA = BitOr(WroteA.v, WantA)
        /\ (WroteA.at \in {"check", "clearA"}) => NowA = WantA
        /\ (WroteB.at \in {"loadA", "storeA", "loadB"}) =>
              NowB = BitOr(WroteB.v, WantB)
        /\ (WroteB.at \in {"check", "clearA", "clearB"}) => NowB = WantB

\* a handler write to register A after its reset has survived the call, and
\* a handler write to register B before its reset has not
C10_Witness ==
    /\ pc = "done" /\ InRange
    /\ WroteA.at = "clearB" /\ WroteA.v = 36
    /\ WroteB.at = "clearA" /\ WroteB.v = 36
    /\ NowA = BitOr(36, WantA) /\ NowA # WantA
    /\ NowB = WantB /\ BitAnd(NowB, 36) = 0

=============================================================================
